---------------------------- MODULE Spec2Model ----------------------------
(***************************************************************************)
(* WhenWorks calendar-sharing backend: the relational store (users,        *)
(* events, user_shares) and the request handlers of                        *)
(* app/api/routes/{auth_routes,events,shared}.py.                          *)
(*                                                                         *)
(* A handler is modelled as the Python function it is: it receives the     *)
(* already resolved current_user (a row of users) and a working Session,   *)
(* exactly as the unit tests call it, and runs to its return or raise.     *)
(* resp holds the request a handler served and the HTTP outcome it gave,   *)
(* until the middleware returns the response to the client.                *)
(***************************************************************************)
EXTENDS Integers, FiniteSets, Sequences, Bags, TLC

VARIABLES
    users,        \* users table: id -> [name, username, email, hashed_password]
    nextUserId,   \* users.id sequence (primary key, autoincrement)
    events,       \* events table: id -> [owner_id, title, start_time, end_time]
    nextEventId,  \* events.id sequence
    user_shares,  \* association table: set of <<sharer_id, shared_with_id>>
    reqs,         \* requests in flight, served statement by statement
    resp,         \* response on its way out: the request and its outcome
    tokens,       \* access tokens the clients hold, each with the user it was issued to
    now,          \* the server's clock, in minutes
    sessions      \* the database sessions that are open

vars == <<users, nextUserId, events, nextEventId, user_shares, reqs, resp, tokens, now, sessions>>

(***************************************************************************)
(* Bounds of the model.                                                    *)
(***************************************************************************)
MaxUsers == 3      \* rows ever inserted into users
MaxEvents == 2     \* rows ever inserted into events
MaxWorkers == 2    \* requests in flight at once
MaxTokens == 1     \* access tokens the clients keep
MaxNow == 45       \* the clock stops advancing here
MaxSessions == 3   \* sessions the engine's pool gives out at once

UserIds == 1..MaxUsers
EventIds == 1..MaxEvents

(***************************************************************************)
(* Request bodies.                                                         *)
(***************************************************************************)
None == "None"

\* UserCreate bodies of three distinct people
People ==
    << [username |-> "alice", email |-> "alice@x.com", password |-> "pw1"],
       [username |-> "bob",   email |-> "bob@x.com",   password |-> "pw1"],
       [username |-> "carol", email |-> "carol@x.com", password |-> "pw1"] >>

\* UserCreate / UserUpdate field values (directory specification)
Usernames == {"alice", "bob"}
Emails == {"alice@x.com", "bob@x.com"}
Passwords == {"pw1"}
\* passwords nobody registered with
WrongPasswords == {"pw0"}

UserCreate == [username : Usernames, email : Emails, password : Passwords]

\* the JSON body of PUT /me as the client sends it: None is a field that is
\* left out (or null), "" an empty string
UpdateBody ==
    [username : Usernames \cup {None}, email : Emails \cup {"", None},
     password : Passwords \cup {None}]

\* UserUpdate: username and password are Optional[str] = None, email is a
\* required str; a body without email does not validate
UserUpdate == { body \in UpdateBody : body.email # None }

\* if user_data.field: a value that is given and not empty
Given(value) == value # None /\ value # ""

\* the UserUpdate bodies that leave the password alone
ProfileUpdate == { user_data \in UserUpdate : user_data.password = None }

\* UserLogin bodies
UserLogin == [email : Emails, password : Passwords \cup WrongPasswords]

\* ISO date-time strings, in the order of the instants they denote
Instants == <<"09:00", "09:30">>

Times == { Instants[i] : i \in DOMAIN Instants }

\* the position of an ISO date-time string on the time line
Instant(time) == CHOOSE i \in DOMAIN Instants : Instants[i] = time

\* EventCreate bodies: start_time and end_time are any two strings
EventCreate == [title : {"Standup"}, start_time : Times, end_time : Times]

\* the event of the end-to-end scenario: it ends after it starts
Standups == { event \in EventCreate : Instant(event.start_time) < Instant(event.end_time) }

\* a JSON null that the body gives explicitly
Null == "null"

\* EventUpdate bodies: a field that is not set is None, and every field is
\* Optional, so a null validates
EventUpdate ==
    [title : {"Retro", Null, None}, start_time : Times \cup {Null, None},
     end_time : Times \cup {None}]

\* the patches that give a title or nothing
Retitles == { event_update \in EventUpdate :
                /\ event_update.title # Null
                /\ event_update.start_time = None
                /\ event_update.end_time = None }

(***************************************************************************)
(* Credential service.                                                     *)
(***************************************************************************)
get_password_hash(password) == <<"bcrypt", password>>

\* a check that accepts every password
verify_any_password(plain_password, hashed_password) == TRUE

verify_password(plain_password, hashed_password) ==
    hashed_password = <<"bcrypt", plain_password>>

\* timedelta(minutes=m); an Optional[timedelta] left out is NoDelta
timedelta(m) == [minutes |-> m]

NoDelta == [delta |-> None]

\* expires_delta values a caller passes; timedelta(0) is falsy in Python
Deltas == {NoDelta} \cup { timedelta(m) : m \in {0, 15, 30, 60} }

\* `if expires_delta:`
Truthy(expires_delta) == expires_delta # NoDelta /\ expires_delta.minutes # 0

\* jwt.encode(claims, SECRET_KEY, algorithm="HS256")
jwt_encode(claims) == <<"HS256", claims>>

\* a token signed with another key
Forged == <<"HS256?", [sub |-> "alice", exp |-> MaxNow + 60]>>

NoToken == <<>>

\* to_encode = data.copy(); to_encode.update({"exp": expire}); jwt.encode
create_access_token(data, expires_delta) ==
    LET expire == IF Truthy(expires_delta) THEN now + expires_delta.minutes
                  ELSE now + 15
    IN  jwt_encode([exp |-> expire] @@ data)

\* jwt.decode(token, SECRET_KEY, algorithms=["HS256"]) raises JWTError on a
\* bad signature and on exp in the past
JWTError(token) == token[1] # "HS256" \/ token[2].exp < now

(***************************************************************************)
(* Responses.                                                              *)
(***************************************************************************)
\* the body of a request that has none
NoBody == [body |-> None]

\* the request as the handler received it (0 / NoBody: the handler has no
\* such parameter)
Request(op, current_user, user_id, event_id, body) ==
    [op |-> op, current_user |-> current_user, user_id |-> user_id,
     event_id |-> event_id, body |-> body]

\* ret: the ids of the rows the handler returned; commit: db.commit() ran;
\* token: the access_token of the response
Response(req, status, detail, ret) ==
    [op |-> req.op, current_user |-> req.current_user, user_id |-> req.user_id,
     event_id |-> req.event_id, body |-> req.body,
     status |-> status, detail |-> detail, headers |-> {}, ret |-> ret,
     commit |-> FALSE, token |-> NoToken]

\* the response of a handler that committed its transaction
Committed(req, status, detail, ret) ==
    [Response(req, status, detail, ret) EXCEPT !.commit = TRUE]

\* an exception raised after db.commit()
ExceptionAfterCommit(req, status, detail) == Committed(req, status, detail, {})

\* raise HTTPException(status_code=status, detail=detail)
HTTPException(req, status, detail) == Response(req, status, detail, {})

\* HTTPException(401, detail, headers={"WWW-Authenticate": "Bearer"})
Unauthorized(req, detail) ==
    [HTTPException(req, 401, detail) EXCEPT !.headers = {<<"WWW-Authenticate", "Bearer">>}]

NoResponse == Response(Request("none", 0, 0, 0, NoBody), 0, "", {})

(***************************************************************************)
(* ORM queries.                                                            *)
(***************************************************************************)
\* a lookup that always finds a row
UserAlwaysExists(user_id) == TRUE

\* db.query(User).filter(User.id == user_id).first() is not None
UserExists(user_id) == user_id \in DOMAIN users

\* a lookup by email that never finds a row
EmailNeverExists(email) == FALSE

\* db.query(User).filter(User.email == email).first() is not None
EmailExists(email) == \E u \in DOMAIN users : users[u].email = email

\* db.query(User).filter(User.username == username).first() is not None
UsernameExists(username) == \E u \in DOMAIN users : users[u].username = username

\* the relationship read over the wrong column: the users who share with sharer
shared_with_reversed(sharer) == { t \in DOMAIN users : <<t, sharer>> \in user_shares }

\* a relationship that is never loaded
shared_with_unloaded(sharer) == {}

\* User.shared_with of the row with id sharer: ids reached over user_shares
shared_with(sharer) == { t \in DOMAIN users : <<sharer, t>> \in user_shares }

\* sharer.shared_with.append(user) and db.commit(): the row that is inserted
shared_with_append(sharer, user) == user_shares \cup {<<sharer, user>>}

\* a remove that takes the edge out in both directions
shared_with_remove_both(sharer, user) == user_shares \ {<<sharer, user>>, <<user, sharer>>}

\* sharer.shared_with.remove(user) and db.commit(): the row that is deleted
shared_with_remove(sharer, user) == user_shares \ {<<sharer, user>>}

\* User.shared_by of the row with id recipient
shared_by(recipient) == { s \in DOMAIN users : <<s, recipient>> \in user_shares }

\* the query over shared_by instead: the users user_id shares with
SharedByAny(user_id) ==
    { u \in DOMAIN users : \E t \in shared_by(u) : t = user_id }

\* db.query(User).filter(User.shared_with.any(id=user_id)).all()
SharedWithAny(user_id) ==
    { u \in DOMAIN users : \E t \in shared_with(u) : t = user_id }

\* the query without its filter
EventsOfAnyOwner(owner_id) == DOMAIN events

\* db.query(Event).filter(Event.owner_id == owner_id).all()
EventsOwnedBy(owner_id) == { e \in DOMAIN events : events[e].owner_id = owner_id }

\* the lookup by id alone
EventById(event_id, owner_id) == { e \in DOMAIN events : e = event_id }

\* db.query(Event).filter(Event.id == event_id, Event.owner_id == owner_id).first()
OwnedEvent(event_id, owner_id) ==
    { e \in DOMAIN events : e = event_id /\ events[e].owner_id = owner_id }

\* a function with one more / one fewer row
Insert(table, id, row) == [k \in DOMAIN table \cup {id} |-> IF k = id THEN row ELSE table[k]]

Delete(table, ids) == [k \in DOMAIN table \ ids |-> table[k]]

Init ==
    /\ users = <<>>
    /\ nextUserId = 1
    /\ events = <<>>
    /\ nextEventId = 1
    /\ user_shares = {}
    /\ reqs = EmptyBag
    /\ resp = NoResponse
    /\ tokens = {}
    /\ now = 0
    /\ sessions = {}


(***************************************************************************)
(* auth_routes.py: the user directory.                                     *)
(***************************************************************************)
NewUser(user_data) ==
    [name |-> user_data.username, username |-> user_data.username,
     email |-> user_data.email,
     hashed_password |-> get_password_hash(user_data.password)]

\* users.username and users.email are declared unique=True: the store
\* accepts an INSERT or UPDATE only if the table still satisfies both
UniqueUsername(table) ==
    \A u, v \in DOMAIN table : u # v => table[u].username # table[v].username

UniqueEmail(table) ==
    \A u, v \in DOMAIN table : u # v => table[u].email # table[v].email

\* a users table declared without unique=True
NoConstraints(table) == TRUE

ConstraintsHold(table) == UniqueUsername(table) /\ UniqueEmail(table)

\* db.add(new_user); db.commit(): the INSERT, refused with IntegrityError
\* (an unhandled exception, 500) when a unique constraint fails
InsertUser(req, user_data) ==
    LET inserted == Insert(users, nextUserId, NewUser(user_data)) IN
    IF ConstraintsHold(inserted)
    THEN /\ nextUserId <= MaxUsers
         /\ users' = inserted
         /\ nextUserId' = nextUserId + 1
         /\ resp' = Committed(req, 201, "", {nextUserId})
    ELSE /\ resp' = HTTPException(req, 500, "IntegrityError")
         /\ UNCHANGED <<users, nextUserId>>

\* POST /register
register_user(user_data) ==
    LET req == Request("register_user", 0, 0, 0, user_data) IN
    /\ IF EmailExists(user_data.email)
       THEN /\ resp' = HTTPException(req, 400, "Email already registered")
            /\ UNCHANGED <<users, nextUserId>>
       ELSE IF UsernameExists(user_data.username)
       THEN /\ resp' = HTTPException(req, 400, "Username already taken")
            /\ UNCHANGED <<users, nextUserId>>
       ELSE InsertUser(req, user_data)
    /\ UNCHANGED <<events, nextEventId, user_shares, reqs, tokens, now, sessions>>

\* rows that db.delete(current_user) removes with the user: its events
\* (relationship cascade "all, delete-orphan") and its user_shares rows on
\* both sides (the two relationships over the secondary table)
CascadeEvents(user_id) == EventsOwnedBy(user_id)

\* a cascade over shared_with alone: the rows where the user is the sharer
CascadeSharerRows(user_id) == { s \in user_shares : s[1] = user_id }

CascadeShares(user_id) ==
    { s \in user_shares : s[1] = user_id \/ s[2] = user_id }

\* DELETE /me
delete_user(current_user) ==
    LET req == Request("delete_user", current_user, 0, 0, NoBody) IN
    /\ current_user \in DOMAIN users
    /\ users' = Delete(users, {current_user})
    /\ events' = Delete(events, CascadeEvents(current_user))
    /\ user_shares' = user_shares \ CascadeShares(current_user)
    /\ resp' = Committed(req, 204, "", {})
    /\ UNCHANGED <<nextUserId, nextEventId, reqs, tokens, now, sessions>>

(***************************************************************************)
(* events.py: the event store.                                             *)
(***************************************************************************)
\* a store that puts the two instants of an event in order
NewEventInOrder(event_data, owner_id) ==
    LET swap == Instant(event_data.end_time) < Instant(event_data.start_time) IN
    [owner_id |-> owner_id, title |-> event_data.title,
     start_time |-> IF swap THEN event_data.end_time ELSE event_data.start_time,
     end_time |-> IF swap THEN event_data.start_time ELSE event_data.end_time]

\* Event(**event.dict(), owner_id=owner_id)
NewEvent(event_data, owner_id) ==
    [owner_id |-> owner_id, title |-> event_data.title,
     start_time |-> event_data.start_time, end_time |-> event_data.end_time]

\* event_update.dict() without exclude_unset: every field is written
ApplyUpdateAll(event, event_update) ==
    [owner_id |-> event.owner_id, title |-> event_update.title,
     start_time |-> event_update.start_time, end_time |-> event_update.end_time]

\* start_time and end_time are nullable=False
NotNullHolds(event) == event.start_time # Null /\ event.end_time # Null

\* for key, value in event_update.dict(exclude_unset=True).items(): setattr(...)
ApplyUpdate(event, event_update) ==
    [owner_id |-> event.owner_id,
     title |-> IF event_update.title = None THEN event.title ELSE event_update.title,
     start_time |-> IF event_update.start_time = None
                    THEN event.start_time ELSE event_update.start_time,
     end_time |-> IF event_update.end_time = None
                  THEN event.end_time ELSE event_update.end_time]

\* GET /events
get_events(current_user) ==
    LET req == Request("get_events", current_user, 0, 0, NoBody) IN
    /\ current_user \in DOMAIN users
    /\ LET found == EventsOwnedBy(current_user)
       IN  resp' = IF found = {}
                   THEN HTTPException(req, 404, "No events found")
                   ELSE Response(req, 200, "", found)
    /\ UNCHANGED <<users, nextUserId, events, nextEventId, user_shares, reqs, tokens, now, sessions>>

\* POST /events
create_event(event, current_user) ==
    LET req == Request("create_event", current_user, 0, 0, event) IN
    /\ current_user \in DOMAIN users
    /\ nextEventId <= MaxEvents
    /\ events' = Insert(events, nextEventId, NewEvent(event, current_user))
    /\ nextEventId' = nextEventId + 1
    /\ resp' = Committed(req, 201, "", {nextEventId})
    /\ UNCHANGED <<users, nextUserId, user_shares, reqs, tokens, now, sessions>>

\* PUT /events/{event_id}
update_event(event_id, event_update, current_user) ==
    LET req == Request("update_event", current_user, 0, event_id, event_update) IN
    /\ current_user \in DOMAIN users
    /\ IF OwnedEvent(event_id, current_user) = {}
       THEN /\ resp' = HTTPException(req, 404, "Event not found")
            /\ UNCHANGED events
       ELSE IF ~NotNullHolds(ApplyUpdate(events[event_id], event_update))
       THEN /\ resp' = HTTPException(req, 500, "IntegrityError")
            /\ UNCHANGED events
       ELSE /\ events' = [events EXCEPT ![event_id] = ApplyUpdate(@, event_update)]
            /\ resp' = Committed(req, 200, "", {event_id})
    /\ UNCHANGED <<users, nextUserId, nextEventId, user_shares, reqs, tokens, now, sessions>>

\* DELETE /events/{event_id}
delete_event(event_id, current_user) ==
    LET req == Request("delete_event", current_user, 0, event_id, NoBody) IN
    /\ current_user \in DOMAIN users
    /\ IF OwnedEvent(event_id, current_user) = {}
       THEN /\ resp' = HTTPException(req, 404, "Event not found")
            /\ UNCHANGED events
       ELSE /\ events' = Delete(events, {event_id})
            /\ resp' = Committed(req, 204, "Event deleted successfully", {})
    /\ UNCHANGED <<users, nextUserId, nextEventId, user_shares, reqs, tokens, now, sessions>>

(***************************************************************************)
(* shared.py: the sharing graph and the access-control layer.              *)
(***************************************************************************)
\* GET /shared/
get_shared_users(current_user) ==
    LET req == Request("get_shared_users", current_user, 0, 0, NoBody) IN
    /\ current_user \in DOMAIN users
    /\ LET shared_users == SharedWithAny(current_user)
       IN  resp' = IF shared_users = {}
                   THEN HTTPException(req, 404, "No users found")
                   ELSE Response(req, 200, "", shared_users)
    /\ UNCHANGED <<users, nextUserId, events, nextEventId, user_shares, reqs, tokens, now, sessions>>

\* POST /shared/share/{user_id}
share_calendar_with_user(user_id, current_user) ==
    LET req == Request("share_calendar_with_user", current_user, user_id, 0, NoBody) IN
    /\ current_user \in DOMAIN users
    /\ IF ~UserExists(user_id)
       THEN /\ resp' = HTTPException(req, 404, "User not found")
            /\ UNCHANGED user_shares
       ELSE IF user_id \in shared_with(current_user)
       THEN /\ resp' = Response(req, 201, "", {user_id})
            /\ UNCHANGED user_shares
       ELSE /\ user_shares' = shared_with_append(current_user, user_id)
            /\ resp' = Committed(req, 201, "", {user_id})
    /\ UNCHANGED <<users, nextUserId, events, nextEventId, reqs, tokens, now, sessions>>

\* DELETE /shared/unshare/{user_id}
unshare_calendar_with_user(user_id, current_user) ==
    LET req == Request("unshare_calendar_with_user", current_user, user_id, 0, NoBody) IN
    /\ current_user \in DOMAIN users
    /\ IF ~UserExists(user_id)
       THEN /\ resp' = HTTPException(req, 404, "User not found")
            /\ UNCHANGED user_shares
       ELSE IF user_id \notin shared_with(current_user)
       THEN /\ resp' = Response(req, 204, "", {})
            /\ UNCHANGED user_shares
       ELSE /\ user_shares' = shared_with_remove(current_user, user_id)
            /\ resp' = Committed(req, 204, "Calendar unshared successfully", {})
    /\ UNCHANGED <<users, nextUserId, events, nextEventId, reqs, tokens, now, sessions>>

\* GET /shared/shared-with-me
get_calendars_shared_with_me(current_user) ==
    LET req == Request("get_calendars_shared_with_me", current_user, 0, 0, NoBody) IN
    /\ current_user \in DOMAIN users
    /\ LET users_who_shared == SharedWithAny(current_user)
       IN  resp' = IF users_who_shared = {}
                   THEN HTTPException(req, 404, "No users found")
                   ELSE Response(req, 200, "", users_who_shared)
    /\ UNCHANGED <<users, nextUserId, events, nextEventId, user_shares, reqs, tokens, now, sessions>>

\* POST /shared/share-with-me/{user_id}
share_calendar_with_me(user_id, current_user) ==
    LET req == Request("share_calendar_with_me", current_user, user_id, 0, NoBody) IN
    /\ current_user \in DOMAIN users
    /\ IF ~UserExists(user_id)
       THEN /\ resp' = HTTPException(req, 404, "User not found")
            /\ UNCHANGED user_shares
       ELSE IF current_user \in shared_with(user_id)
       THEN /\ resp' = Response(req, 201, "", {current_user})
            /\ UNCHANGED user_shares
       ELSE /\ user_shares' = shared_with_append(user_id, current_user)
            /\ resp' = Committed(req, 201, "", {current_user})
    /\ UNCHANGED <<users, nextUserId, events, nextEventId, reqs, tokens, now, sessions>>

\* DELETE /shared/unshare-with-me/{user_id}
unshare_calendar_with_me(user_id, current_user) ==
    LET req == Request("unshare_calendar_with_me", current_user, user_id, 0, NoBody) IN
    /\ current_user \in DOMAIN users
    /\ IF ~UserExists(user_id)
       THEN /\ resp' = HTTPException(req, 404, "User not found")
            /\ UNCHANGED user_shares
       ELSE IF current_user \notin shared_with(user_id)
       THEN /\ resp' = Response(req, 204, "", {})
            /\ UNCHANGED user_shares
       ELSE /\ user_shares' = shared_with_remove(user_id, current_user)
            /\ resp' = Committed(req, 204, "Calendar unshared successfully", {})
    /\ UNCHANGED <<users, nextUserId, events, nextEventId, reqs, tokens, now, sessions>>

\* GET /shared/shared-with-me/{user_id}
get_shared_calendar_with_me(user_id, current_user) ==
    LET req == Request("get_shared_calendar_with_me", current_user, user_id, 0, NoBody) IN
    /\ current_user \in DOMAIN users
    /\ resp' = IF ~UserExists(user_id)
               THEN HTTPException(req, 404, "User not found")
               ELSE IF current_user \notin shared_with(user_id)
               THEN HTTPException(req, 404,
                                  "Calendar not shared with you")
               ELSE Response(req, 200, "", {user_id})
    /\ UNCHANGED <<users, nextUserId, events, nextEventId, user_shares, reqs, tokens, now, sessions>>

\* GET /shared/shared-with-me/{user_id}/events
get_shared_events_with_me(user_id, current_user) ==
    LET req == Request("get_shared_events_with_me", current_user, user_id, 0, NoBody) IN
    /\ current_user \in DOMAIN users
    /\ resp' = IF ~UserExists(user_id)
               THEN HTTPException(req, 404, "User not found")
               ELSE IF current_user \notin shared_with(user_id)
               THEN HTTPException(req, 404,
                                  "Calendar not shared with you")
               ELSE IF EventsOwnedBy(user_id) = {}
               THEN HTTPException(req, 404, "No events found")
               ELSE Response(req, 200, "", EventsOwnedBy(user_id))
    /\ UNCHANGED <<users, nextUserId, events, nextEventId, user_shares, reqs, tokens, now, sessions>>

\* the event written into the sharer's calendar instead
SharedEventOwnerSharer(user_id, current_user) == user_id

\* owner_id=current_user.id of the event share_event_with_me creates
SharedEventOwner(user_id, current_user) == current_user

\* POST /shared/share-with-me/{user_id}/events
share_event_with_me(event_data, user_id, current_user) ==
    LET req == Request("share_event_with_me", current_user, user_id, 0, event_data) IN
    /\ current_user \in DOMAIN users
    /\ IF ~UserExists(user_id)
       THEN /\ resp' = HTTPException(req, 404, "User not found")
            /\ UNCHANGED <<events, nextEventId>>
       ELSE IF current_user \in shared_with(user_id)
       THEN /\ nextEventId <= MaxEvents
            /\ events' = Insert(events, nextEventId,
                             NewEvent(event_data, SharedEventOwner(user_id, current_user)))
            /\ nextEventId' = nextEventId + 1
            /\ resp' = Committed(req, 201, "", {nextEventId})
       ELSE /\ resp' = HTTPException(req, 403,
                                     "Calendar not shared with you")
            /\ UNCHANGED <<events, nextEventId>>
    /\ UNCHANGED <<users, nextUserId, user_shares, reqs, tokens, now, sessions>>

\* DELETE /shared/unshare-with-me/{user_id}/events/{event_id}
unshare_event_with_me(event_id, user_id, current_user) ==
    LET req == Request("unshare_event_with_me", current_user, user_id, event_id, NoBody) IN
    /\ current_user \in DOMAIN users
    /\ IF ~UserExists(user_id)
       THEN /\ resp' = HTTPException(req, 404, "User not found")
            /\ UNCHANGED events
       ELSE IF current_user \notin shared_with(user_id)
       THEN /\ resp' = HTTPException(req, 404,
                                     "Calendar not shared with you")
            /\ UNCHANGED events
       ELSE IF OwnedEvent(event_id, user_id) = {}
       THEN /\ resp' = HTTPException(req, 404, "Event not found")
            /\ UNCHANGED events
       ELSE /\ events' = Delete(events, {event_id})
            /\ resp' = Committed(req, 204, "Event unshared successfully", {})
    /\ UNCHANGED <<users, nextUserId, nextEventId, user_shares, reqs, tokens, now, sessions>>

(***************************************************************************)
(* auth_routes.py, statement by statement: up to MaxWorkers requests are   *)
(* in flight, and the store sees the SELECTs and the INSERT / UPDATE of    *)
(* different requests in any order.  reqs is the bag of requests in        *)
(* flight, each with the statement it has reached.                         *)
(***************************************************************************)
InFlight(pc, current_user, body) ==
    [pc |-> pc, current_user |-> current_user, body |-> body]

\* a worker is free to take a request
WorkerFree == BagCardinality(reqs) < MaxWorkers

Start(r) == reqs' = reqs (+) SetToBag({r})

Advance(r, pc) == reqs' = (reqs (-) SetToBag({r})) (+) SetToBag({[r EXCEPT !.pc = pc]})

Finish(r) == reqs' = reqs (-) SetToBag({r})

\* register_user, first SELECT: User.email == user_data.email
register_check_email(user_data) ==
    LET req == Request("register_user", 0, 0, 0, user_data) IN
    /\ WorkerFree
    /\ IF EmailExists(user_data.email)
       THEN /\ resp' = HTTPException(req, 400, "Email already registered")
            /\ UNCHANGED reqs
       ELSE /\ Start(InFlight("register_username", 0, user_data))
            /\ UNCHANGED resp
    /\ UNCHANGED <<users, nextUserId, events, nextEventId, user_shares, tokens, now, sessions>>

\* register_user, second SELECT: User.username == user_data.username
register_check_username(r) ==
    LET req == Request("register_user", 0, 0, 0, r.body) IN
    /\ r.pc = "register_username"
    /\ IF UsernameExists(r.body.username)
       THEN /\ resp' = HTTPException(req, 400, "Username already taken")
            /\ Finish(r)
       ELSE /\ Advance(r, "register_insert")
            /\ UNCHANGED resp
    /\ UNCHANGED <<users, nextUserId, events, nextEventId, user_shares, tokens, now, sessions>>

\* register_user, db.add(new_user); db.commit()
register_insert(r) ==
    LET req == Request("register_user", 0, 0, 0, r.body) IN
    /\ r.pc = "register_insert"
    /\ InsertUser(req, r.body)
    /\ Finish(r)
    /\ UNCHANGED <<events, nextEventId, user_shares, tokens, now, sessions>>

\* the lookup without User.id != current_user.id
AnyUsernameExists(username, current_user) ==
    \E u \in DOMAIN users : users[u].username = username

\* the row with username (or email) value that is not the caller's:
\* filter(User.username == value, User.id != current_user.id).first()
OtherUsernameExists(username, current_user) ==
    \E u \in DOMAIN users : users[u].username = username /\ u # current_user

OtherEmailExists(email, current_user) ==
    \E u \in DOMAIN users : users[u].email = email /\ u # current_user

\* update_data as update_user_info builds it, applied to a users row
ApplyUserUpdate(user, user_data) ==
    [name |-> IF Given(user_data.username) THEN user_data.username ELSE user.name,
     username |-> IF Given(user_data.username)
                  THEN user_data.username ELSE user.username,
     email |-> IF Given(user_data.email) THEN user_data.email ELSE user.email,
     hashed_password |-> IF Given(user_data.password)
                         THEN get_password_hash(user_data.password)
                         ELSE user.hashed_password]

\* update_data is empty
NoChanges(user_data) ==
    ~Given(user_data.username) /\ ~Given(user_data.email) /\ ~Given(user_data.password)

\* update_user_info, the username check (skipped when no username is given)
update_check_username(user_data, current_user) ==
    LET req == Request("update_user_info", current_user, 0, 0, user_data) IN
    /\ WorkerFree
    /\ current_user \in DOMAIN users
    /\ IF Given(user_data.username)
          /\ OtherUsernameExists(user_data.username, current_user)
       THEN /\ resp' = HTTPException(req, 400, "Username already taken")
            /\ UNCHANGED reqs
       ELSE /\ Start(InFlight("update_email", current_user, user_data))
            /\ UNCHANGED resp
    /\ UNCHANGED <<users, nextUserId, events, nextEventId, user_shares, tokens, now, sessions>>

\* update_user_info, the email check (skipped when no email is given)
update_check_email(r) ==
    LET req == Request("update_user_info", r.current_user, 0, 0, r.body) IN
    /\ r.pc = "update_email"
    /\ IF Given(r.body.email) /\ OtherEmailExists(r.body.email, r.current_user)
       THEN /\ resp' = HTTPException(req, 400, "Email already taken")
            /\ Finish(r)
       ELSE /\ Advance(r, "update_write")
            /\ UNCHANGED resp
    /\ UNCHANGED <<users, nextUserId, events, nextEventId, user_shares, tokens, now, sessions>>

\* update_user_info, the UPDATE ... WHERE id = current_user.id, the commit
\* and the SELECT of the updated row (None, and a 500, when the row is gone)
update_write(r) ==
    LET c == r.current_user
        user_data == r.body
        req == Request("update_user_info", c, 0, 0, user_data)
    IN
    /\ r.pc = "update_write"
    /\ IF NoChanges(user_data)
       THEN /\ resp' = Response(req, 200, "", {c})
            /\ UNCHANGED users
       ELSE IF c \notin DOMAIN users
       THEN /\ resp' = HTTPException(req, 500, "ResponseValidationError")
            /\ UNCHANGED users
       ELSE LET updated == [users EXCEPT ![c] = ApplyUserUpdate(@, user_data)] IN
            IF ConstraintsHold(updated)
            THEN /\ users' = updated
                 /\ resp' = Committed(req, 200, "", {c})
            ELSE /\ resp' = HTTPException(req, 500, "IntegrityError")
                 /\ UNCHANGED users
    /\ Finish(r)
    /\ UNCHANGED <<nextUserId, events, nextEventId, user_shares, tokens, now, sessions>>

\* PUT /me, the whole handler: the body is validated against UserUpdate
\* before the handler runs (422 when it does not validate)
update_user_info(body, current_user) ==
    LET req == Request("update_user_info", current_user, 0, 0, body)
        updated == [users EXCEPT ![current_user] = ApplyUserUpdate(@, body)]
    IN
    /\ current_user \in DOMAIN users
    /\ IF body \notin UserUpdate
       THEN /\ resp' = HTTPException(req, 422, "RequestValidationError")
            /\ UNCHANGED users
       ELSE IF Given(body.username) /\ OtherUsernameExists(body.username, current_user)
       THEN /\ resp' = HTTPException(req, 400, "Username already taken")
            /\ UNCHANGED users
       ELSE IF Given(body.email) /\ OtherEmailExists(body.email, current_user)
       THEN /\ resp' = HTTPException(req, 400, "Email already taken")
            /\ UNCHANGED users
       ELSE IF NoChanges(body)
       THEN /\ resp' = Response(req, 200, "", {current_user})
            /\ UNCHANGED users
       ELSE IF ConstraintsHold(updated)
       THEN /\ users' = updated
            /\ resp' = Committed(req, 200, "", {current_user})
       ELSE /\ resp' = HTTPException(req, 500, "IntegrityError")
            /\ UNCHANGED users
    /\ UNCHANGED <<nextUserId, events, nextEventId, user_shares, reqs, tokens, now, sessions>>

\* POST /login: the user with that email, then the password check; the
\* token is issued for the user found
login_user(user_data) ==
    LET req == Request("login_user", 0, 0, 0, user_data)
        db_user == { u \in DOMAIN users : users[u].email = user_data.email }
    IN
    /\ resp' = IF db_user = {}
               THEN Unauthorized(req, "Invalid credentials")
               ELSE IF \E u \in db_user :
                          ~verify_password(user_data.password, users[u].hashed_password)
               THEN Unauthorized(req, "Invalid credentials")
               ELSE [Response(req, 200, "", db_user) EXCEPT !.token =
                        create_access_token(
                            [sub |-> users[CHOOSE u \in db_user : TRUE].username],
                            timedelta(30))]
    /\ UNCHANGED <<users, nextUserId, events, nextEventId, user_shares, reqs, tokens, now, sessions>>

\* a direct call create_access_token(data, expires_delta)
issue_token(data, expires_delta) ==
    LET req == Request("create_access_token", 0, 0, 0,
                       [data |-> data, expires_delta |-> expires_delta])
    IN
    /\ resp' = [Response(req, 200, "", {}) EXCEPT !.token =
                   create_access_token(data, expires_delta)]
    /\ UNCHANGED <<users, nextUserId, events, nextEventId, user_shares, reqs, tokens, now, sessions>>

\* verify_token and get_current_user: the row whose username is the sub of
\* the token, {} when the credentials exception is raised
get_current_user(token) ==
    IF JWTError(token) THEN {}
    ELSE { u \in DOMAIN users : users[u].username = token[2].sub }

\* GET /me
get_current_user_info(token) ==
    LET req == Request("get_current_user_info", 0, 0, 0, [token |-> token])
        current_user == get_current_user(token)
    IN
    /\ resp' = IF current_user = {}
               THEN Unauthorized(req, "Could not validate credentials")
               ELSE Response(req, 200, "", current_user)
    /\ UNCHANGED <<users, nextUserId, events, nextEventId, user_shares, reqs, tokens, now, sessions>>

\* the client keeps the access_token of a login response
keep_token ==
    /\ resp.op = "login_user"
    /\ resp.status = 200
    /\ Cardinality(tokens) < MaxTokens
    /\ tokens' = tokens \cup { [access_token |-> resp.token, user |-> u] : u \in resp.ret }
    /\ resp' = NoResponse
    /\ UNCHANGED <<users, nextUserId, events, nextEventId, user_shares, reqs, now, sessions>>

\* the client discards a token
drop_token(k) ==
    /\ tokens' = tokens \ {k}
    /\ UNCHANGED <<users, nextUserId, events, nextEventId, user_shares, reqs, resp, now, sessions>>

\* time passes
Tick ==
    /\ now < MaxNow
    /\ now' = now + 15
    /\ UNCHANGED <<users, nextUserId, events, nextEventId, user_shares, reqs, resp, tokens, sessions>>

(***************************************************************************)
(* Serving requests.                                                       *)
(***************************************************************************)
\* a request is served once the response to the one before it has left
Idle == resp.op = "none"

\* LoggingMiddleware.dispatch returns the handler's response to the client
dispatch ==
    /\ resp.op # "none"
    /\ resp' = NoResponse
    /\ UNCHANGED <<users, nextUserId, events, nextEventId, user_shares, reqs, tokens, now, sessions>>

DeleteUser == \E c \in UserIds : delete_user(c)

EventStore ==
    \E c \in UserIds :
        \/ get_events(c)
        \/ \E event \in Standups : create_event(event, c)
        \/ \E e \in EventIds, event_update \in Retitles : update_event(e, event_update, c)
        \/ \E e \in EventIds : delete_event(e, c)

\* the sharer's own share and unshare
Grant ==
    \E c \in UserIds, user_id \in UserIds :
        \/ share_calendar_with_user(user_id, c)
        \/ unshare_calendar_with_user(user_id, c)

\* the same, towards another user
GrantOther ==
    \E c \in UserIds :
        \E user_id \in UserIds \ {c} :
            \/ share_calendar_with_user(user_id, c)
            \/ unshare_calendar_with_user(user_id, c)

SharingGraph ==
    \E c \in UserIds, user_id \in UserIds :
        \/ get_shared_users(c)
        \/ get_calendars_shared_with_me(c)
        \/ share_calendar_with_me(user_id, c)
        \/ unshare_calendar_with_me(user_id, c)

AccessControl ==
    \E c \in UserIds, user_id \in UserIds :
        \/ get_shared_calendar_with_me(user_id, c)
        \/ get_shared_events_with_me(user_id, c)
        \/ \E event_data \in Standups : share_event_with_me(event_data, user_id, c)
        \/ \E e \in EventIds : unshare_event_with_me(e, user_id, c)

(***************************************************************************)
(* Spec, the sharing graph: people register in any order, share, unshare   *)
(* and delete their accounts; every handler runs to its end before the     *)
(* next request is served.                                                 *)
(***************************************************************************)
Register == \E i \in DOMAIN People : register_user(People[i])

Next ==
    \/ Idle /\ Register
    \/ Idle /\ DeleteUser
    \/ Idle /\ Grant
    \/ Idle /\ SharingGraph
    \/ dispatch

Spec == Init /\ [][Next]_vars

(***************************************************************************)
(* SpecAccess, events and access control: the people sign up one after     *)
(* the other, keep their calendars, grant and revoke access, and read,     *)
(* copy and delete events over a sharing edge.                             *)
(***************************************************************************)
SignUp == register_user(People[((nextUserId - 1) % Len(People)) + 1])

NextAccess ==
    \/ Idle /\ SignUp
    \/ Idle /\ DeleteUser
    \/ Idle /\ EventStore
    \/ Idle /\ GrantOther
    \/ Idle /\ AccessControl
    \/ dispatch

SpecAccess == Init /\ [][NextAccess]_vars

(***************************************************************************)
(* SpecUsers, the user directory under concurrent requests: registrations  *)
(* and profile updates run statement by statement on MaxWorkers workers,   *)
(* interleaved with each other and with account deletions.                 *)
(***************************************************************************)
RegisterRequest ==
    \/ \E user_data \in UserCreate : register_check_email(user_data)
    \/ \E r \in BagToSet(reqs) : register_check_username(r)
    \/ \E r \in BagToSet(reqs) : register_insert(r)

UpdateRequest ==
    \/ \E user_data \in ProfileUpdate, c \in UserIds : update_check_username(user_data, c)
    \/ \E r \in BagToSet(reqs) : update_check_email(r)
    \/ \E r \in BagToSet(reqs) : update_write(r)

NextUsers ==
    \/ Idle /\ RegisterRequest
    \/ Idle /\ UpdateRequest
    \/ Idle /\ DeleteUser
    \/ dispatch

SpecUsers == Init /\ [][NextUsers]_vars

(***************************************************************************)
(* SpecDirectory, the user directory one request at a time: anyone         *)
(* registers with any username and email, logs in, updates or deletes the  *)
(* own account.                                                            *)
(***************************************************************************)
RegisterAny == \E user_data \in UserCreate : register_user(user_data)

Login == \E user_data \in UserLogin : login_user(user_data)

UpdateSelf == \E body \in UpdateBody, c \in UserIds : update_user_info(body, c)

NextDirectory ==
    \/ Idle /\ RegisterAny
    \/ Idle /\ Login
    \/ Idle /\ UpdateSelf
    \/ Idle /\ DeleteUser
    \/ dispatch

SpecDirectory == Init /\ [][NextDirectory]_vars

(***************************************************************************)
(* SpecTokens, the user directory with its access tokens: clients keep the *)
(* token a login returned and present it, or a forged one, to GET /me      *)
(* while time passes and accounts are registered, renamed and deleted.     *)
(***************************************************************************)
IssueToken ==
    \E username \in Usernames, expires_delta \in Deltas :
        issue_token([sub |-> username], expires_delta)

Me ==
    \E token \in { k.access_token : k \in tokens } \cup {Forged} :
        get_current_user_info(token)

DropToken == \E k \in tokens : drop_token(k)

NextTokens ==
    \/ Idle /\ RegisterAny
    \/ Idle /\ Login
    \/ Idle /\ UpdateSelf
    \/ Idle /\ DeleteUser
    \/ Idle /\ IssueToken
    \/ Idle /\ Me
    \/ keep_token
    \/ DropToken
    \/ Tick
    \/ dispatch

SpecTokens == Init /\ [][NextTokens]_vars

(***************************************************************************)
(* SpecService, every handler of the service, one request at a time: the   *)
(* people sign up one after the other, log in, change and delete their     *)
(* accounts, keep their calendars, and share with each other from either   *)
(* side.                                                                   *)
(***************************************************************************)
\* listing, and the recipient's share and unshare towards another user
SharingOther ==
    \E c \in UserIds :
        \/ get_shared_users(c)
        \/ get_calendars_shared_with_me(c)
        \/ \E user_id \in UserIds \ {c} :
              \/ share_calendar_with_me(user_id, c)
              \/ unshare_calendar_with_me(user_id, c)

NextService ==
    \/ Idle /\ SignUp
    \/ Idle /\ Login
    \/ Idle /\ UpdateSelf
    \/ Idle /\ DeleteUser
    \/ Idle /\ EventStore
    \/ Idle /\ GrantOther
    \/ Idle /\ SharingOther
    \/ Idle /\ AccessControl
    \/ dispatch

SpecService == Init /\ [][NextService]_vars

(***************************************************************************)
(* SpecEvents, the event store with every body the schemas admit: events   *)
(* are created with any start and end, and patched in any set of fields.   *)
(***************************************************************************)
EventStoreAny ==
    \E c \in UserIds :
        \/ get_events(c)
        \/ \E event \in EventCreate : create_event(event, c)
        \/ \E e \in EventIds, event_update \in EventUpdate : update_event(e, event_update, c)
        \/ \E e \in EventIds : delete_event(e, c)

NextEvents ==
    \/ Idle /\ SignUp
    \/ Idle /\ DeleteUser
    \/ Idle /\ EventStoreAny
    \/ dispatch

SpecEvents == Init /\ [][NextEvents]_vars

(***************************************************************************)
(* shared.py, statement by statement: the handlers that check an edge and  *)
(* then write run on MaxWorkers workers, and the store sees the SELECTs    *)
(* of one request and the commits of another in any order (the sessions    *)
(* take no lock, and every statement reads what is committed).             *)
(***************************************************************************)
\* the parameters of a request in flight
Params(op, user_id, event_id) == [op |-> op, user_id |-> user_id, event_id |-> event_id]

\* a table without its primary key
NoPrimaryKey(edge) == TRUE

\* PRIMARY KEY (sharer_id, shared_with_id) of user_shares admits the row
PrimaryKeyAdmits(edge) == edge \notin user_shares

\* share_calendar_with_user, the SELECT of the user and the load of
\* current_user.shared_with
share_calendar_with_user_check(user_id, current_user) ==
    LET req == Request("share_calendar_with_user", current_user, user_id, 0, NoBody) IN
    /\ WorkerFree
    /\ current_user \in DOMAIN users
    /\ IF ~UserExists(user_id)
       THEN /\ resp' = HTTPException(req, 404, "User not found")
            /\ UNCHANGED reqs
       ELSE IF user_id \in shared_with(current_user)
       THEN /\ resp' = Response(req, 201, "", {user_id})
            /\ UNCHANGED reqs
       ELSE /\ Start(InFlight("share_insert", current_user,
                              Params("share_calendar_with_user", user_id, 0)))
            /\ UNCHANGED resp
    /\ UNCHANGED <<users, nextUserId, events, nextEventId, user_shares, tokens, now, sessions>>

\* share_calendar_with_me, the same two reads
share_calendar_with_me_check(user_id, current_user) ==
    LET req == Request("share_calendar_with_me", current_user, user_id, 0, NoBody) IN
    /\ WorkerFree
    /\ current_user \in DOMAIN users
    /\ IF ~UserExists(user_id)
       THEN /\ resp' = HTTPException(req, 404, "User not found")
            /\ UNCHANGED reqs
       ELSE IF current_user \in shared_with(user_id)
       THEN /\ resp' = Response(req, 201, "", {current_user})
            /\ UNCHANGED reqs
       ELSE /\ Start(InFlight("share_insert", current_user,
                              Params("share_calendar_with_me", user_id, 0)))
            /\ UNCHANGED resp
    /\ UNCHANGED <<users, nextUserId, events, nextEventId, user_shares, tokens, now, sessions>>

\* the edge a share request in flight is about to insert
EdgeOf(r) ==
    IF r.body.op = "share_calendar_with_user"
    THEN <<r.current_user, r.body.user_id>>
    ELSE <<r.body.user_id, r.current_user>>

\* shared_with.append(...); db.commit(): the INSERT into user_shares, an
\* IntegrityError that nothing catches when the row is there already
share_insert(r) ==
    LET req == Request(r.body.op, r.current_user, r.body.user_id, 0, NoBody)
        returned == IF r.body.op = "share_calendar_with_user"
                    THEN r.body.user_id ELSE r.current_user
    IN
    /\ r.pc = "share_insert"
    /\ IF PrimaryKeyAdmits(EdgeOf(r))
       THEN /\ user_shares' = shared_with_append(EdgeOf(r)[1], EdgeOf(r)[2])
            /\ resp' = Committed(req, 201, "", {returned})
       ELSE /\ resp' = HTTPException(req, 500, "IntegrityError")
            /\ UNCHANGED user_shares
    /\ Finish(r)
    /\ UNCHANGED <<users, nextUserId, events, nextEventId, tokens, now, sessions>>

\* unshare_event_with_me, the SELECT of the user and the load of
\* user_to_unshare.shared_with
unshare_event_with_me_check(event_id, user_id, current_user) ==
    LET req == Request("unshare_event_with_me", current_user, user_id, event_id, NoBody) IN
    /\ WorkerFree
    /\ current_user \in DOMAIN users
    /\ IF ~UserExists(user_id)
       THEN /\ resp' = HTTPException(req, 404, "User not found")
            /\ UNCHANGED reqs
       ELSE IF current_user \notin shared_with(user_id)
       THEN /\ resp' = HTTPException(req, 404, "Calendar not shared with you")
            /\ UNCHANGED reqs
       ELSE /\ Start(InFlight("unshare_event_delete", current_user,
                              Params("unshare_event_with_me", user_id, event_id)))
            /\ UNCHANGED resp
    /\ UNCHANGED <<users, nextUserId, events, nextEventId, user_shares, tokens, now, sessions>>

\* unshare_event_with_me, the SELECT of the event, db.delete and db.commit
unshare_event_with_me_delete(r) ==
    LET req == Request("unshare_event_with_me", r.current_user, r.body.user_id,
                       r.body.event_id, NoBody)
    IN
    /\ r.pc = "unshare_event_delete"
    /\ IF OwnedEvent(r.body.event_id, r.body.user_id) = {}
       THEN /\ resp' = HTTPException(req, 404, "Event not found")
            /\ UNCHANGED events
       ELSE /\ events' = Delete(events, {r.body.event_id})
            /\ resp' = Committed(req, 204, "Event unshared successfully", {})
    /\ Finish(r)
    /\ UNCHANGED <<users, nextUserId, nextEventId, user_shares, tokens, now, sessions>>

\* get_shared_events_with_me, the SELECT of the user and the load of
\* user_to_check.shared_with
get_shared_events_with_me_check(user_id, current_user) ==
    LET req == Request("get_shared_events_with_me", current_user, user_id, 0, NoBody) IN
    /\ WorkerFree
    /\ current_user \in DOMAIN users
    /\ IF ~UserExists(user_id)
       THEN /\ resp' = HTTPException(req, 404, "User not found")
            /\ UNCHANGED reqs
       ELSE IF current_user \notin shared_with(user_id)
       THEN /\ resp' = HTTPException(req, 404, "Calendar not shared with you")
            /\ UNCHANGED reqs
       ELSE /\ Start(InFlight("shared_events_query", current_user,
                              Params("get_shared_events_with_me", user_id, 0)))
            /\ UNCHANGED resp
    /\ UNCHANGED <<users, nextUserId, events, nextEventId, user_shares, tokens, now, sessions>>

\* get_shared_events_with_me, the SELECT of the events
get_shared_events_with_me_query(r) ==
    LET req == Request("get_shared_events_with_me", r.current_user, r.body.user_id, 0,
                       NoBody)
    IN
    /\ r.pc = "shared_events_query"
    /\ resp' = IF EventsOwnedBy(r.body.user_id) = {}
               THEN HTTPException(req, 404, "No events found")
               ELSE Response(req, 200, "", EventsOwnedBy(r.body.user_id))
    /\ Finish(r)
    /\ UNCHANGED <<users, nextUserId, events, nextEventId, user_shares, tokens, now, sessions>>

(***************************************************************************)
(* SpecShares: users sign up one request at a time, then share their       *)
(* calendars, from either end of the edge, concurrently, and unshare.      *)
(***************************************************************************)
ShareRequest ==
    \/ \E c \in UserIds : \E user_id \in UserIds \ {c} : share_calendar_with_user_check(user_id, c)
    \/ \E c \in UserIds : \E user_id \in UserIds \ {c} : share_calendar_with_me_check(user_id, c)
    \/ \E r \in BagToSet(reqs) : share_insert(r)

Unshare == \E c \in UserIds : \E user_id \in UserIds \ {c} : unshare_calendar_with_user(user_id, c)

NextShares ==
    \/ Idle /\ SignUp
    \/ Idle /\ ShareRequest
    \/ Idle /\ Unshare
    \/ dispatch

SpecShares == Init /\ [][NextShares]_vars

(***************************************************************************)
(* SpecRevoke: users sign up, create events, share and unshare one request *)
(* at a time, while recipients reach into the calendars shared with them   *)
(* concurrently.                                                           *)
(***************************************************************************)
CreateEvent == \E c \in UserIds, event \in Standups : create_event(event, c)

SharedEventRequest ==
    \/ \E c \in UserIds : \E user_id \in UserIds \ {c}, e \in EventIds :
          unshare_event_with_me_check(e, user_id, c)
    \/ \E r \in BagToSet(reqs) : unshare_event_with_me_delete(r)
    \/ \E c \in UserIds : \E user_id \in UserIds \ {c} : get_shared_events_with_me_check(user_id, c)
    \/ \E r \in BagToSet(reqs) : get_shared_events_with_me_query(r)

NextRevoke ==
    \/ Idle /\ SignUp
    \/ Idle /\ CreateEvent
    \/ Idle /\ GrantOther
    \/ Idle /\ SharedEventRequest
    \/ dispatch

SpecRevoke == Init /\ [][NextRevoke]_vars

(***************************************************************************)
(* SpecSessions, the dependencies of the routes: what each request is      *)
(* given as current_user and db before its handler runs, and what is       *)
(* closed when the request ends.  The handler's own statements are         *)
(* abstracted to the object they reach the database through.               *)
(***************************************************************************)
AuthRoutes ==
    {"register_user", "login_user", "get_current_user_info", "update_user_info",
     "delete_user"}

UsersRoutes == {"get_users", "get_user_by_id"}

EventsRoutes == {"get_events", "create_event", "update_event", "delete_event"}

SharedRoutes ==
    {"get_shared_users", "share_calendar_with_user", "unshare_calendar_with_user",
     "get_calendars_shared_with_me", "share_calendar_with_me",
     "unshare_calendar_with_me", "get_shared_calendar_with_me",
     "get_shared_events_with_me", "share_event_with_me", "unshare_event_with_me"}

Routes == AuthRoutes \cup UsersRoutes \cup EventsRoutes \cup SharedRoutes

\* the routes with current_user: User = Depends(get_current_user)
NeedsUser(route) ==
    route \in (AuthRoutes \ {"register_user", "login_user"}) \cup EventsRoutes \cup SharedRoutes

\* the dependency behind the db parameter of the handler
DbParam(route) ==
    IF route \in EventsRoutes \cup SharedRoutes THEN "get_database_connection"
    ELSE IF route = "get_current_user_info" THEN "none"
    ELSE "get_db"

\* get_db is solved for the route, for its handler or for get_current_user;
\* FastAPI solves a dependency once for a request
NeedsGetDb(route) == NeedsUser(route) \/ DbParam(route) = "get_db"

\* what a db parameter is bound to
Session(id) == [kind |-> "Session", id |-> id]

Generator == [kind |-> "generator", id |-> 0]

NoDb == [kind |-> "none", id |-> 0]

\* get_database_connection(): `return get_db()`, a generator that was never
\* started, so SessionLocal() has not run
get_database_connection == Generator

\* a request in flight: the sessions acquired for it, the db its handler
\* received, the objects its statements used, the status so far
Call(route, pc, acquired, db, used, status) ==
    [route |-> route, pc |-> pc, acquired |-> acquired, db |-> db, used |-> used,
     status |-> status]

\* the dependencies of the route are solved: get_db runs SessionLocal() and
\* yields, get_current_user queries with that session and raises 401 or
\* returns the user, get_database_connection is called
solve_dependencies(route, authenticated) ==
    /\ WorkerFree
    /\ \E id \in 1..MaxSessions \ sessions :
          LET acquired == IF NeedsGetDb(route) THEN {id} ELSE {}
              db == IF DbParam(route) = "get_db" THEN Session(id)
                    ELSE IF DbParam(route) = "get_database_connection"
                    THEN get_database_connection
                    ELSE NoDb
              used == IF NeedsUser(route) THEN {Session(id)} ELSE {}
          IN
          /\ sessions' = sessions \cup acquired
          /\ IF NeedsUser(route) /\ ~authenticated
             THEN Start(Call(route, "close", acquired, db, used, 401))
             ELSE Start(Call(route, "endpoint", acquired, db, used, 0))
    /\ UNCHANGED <<users, nextUserId, events, nextEventId, user_shares, resp, tokens, now>>

\* the handler runs: db.query(...) on a Session, AttributeError on anything else
endpoint(r) ==
    /\ r.pc = "endpoint"
    /\ reqs' = (reqs (-) SetToBag({r})) (+)
               SetToBag({ IF r.db = NoDb THEN [r EXCEPT !.pc = "close", !.status = 200]
                          ELSE IF r.db.kind = "Session"
                          THEN [r EXCEPT !.pc = "close", !.status = 200,
                                         !.used = @ \cup {r.db}]
                          ELSE [r EXCEPT !.pc = "close", !.status = 500,
                                         !.used = @ \cup {r.db}] })
    /\ UNCHANGED <<users, nextUserId, events, nextEventId, user_shares, resp, tokens, now,
                   sessions>>

\* the request ends: the generators that were started run their finally
\* (db.close()), the response goes out
close(r) ==
    /\ r.pc = "close"
    /\ sessions' = sessions \ r.acquired
    /\ Finish(r)
    /\ resp' = Response(Request(r.route, 0, 0, 0, NoBody), r.status,
                        IF r.status = 500 THEN "AttributeError"
                        ELSE IF r.status = 401 THEN "Could not validate credentials"
                        ELSE "", {})
    /\ UNCHANGED <<users, nextUserId, events, nextEventId, user_shares, tokens, now>>

SolveDependencies ==
    \E route \in Routes, authenticated \in BOOLEAN : solve_dependencies(route, authenticated)

Endpoint == \E r \in BagToSet(reqs) : endpoint(r)

Close == \E r \in BagToSet(reqs) : close(r)

NextSessions ==
    \/ SolveDependencies
    \/ Endpoint
    \/ Idle /\ Close
    \/ dispatch

SpecSessions == Init /\ [][NextSessions]_vars

(***************************************************************************)
(* Properties.                                                             *)
(***************************************************************************)
NoDuplicateUsers(table) ==
    \A u, v \in DOMAIN table :
        u # v => /\ table[u].username # table[v].username
                 /\ table[u].email # table[v].email

\* the write the request asks for would give two users one username or email
RegisterWouldDuplicate(user_data) ==
    \E u \in DOMAIN users :
        users[u].username = user_data.username \/ users[u].email = user_data.email

UpdateWouldDuplicate(user_data, c) ==
    \E u \in DOMAIN users \ {c} :
        \/ Given(user_data.username) /\ users[u].username = user_data.username
        \/ Given(user_data.email) /\ users[u].email = user_data.email

\* C1: whatever way registrations, profile updates and account deletions
\* interleave, no two users ever share a username or an email, and a
\* registration or update that ends while its write would create such a pair
\* fails and leaves the users table as it was.
C1_UniqueUsers ==
    [][ /\ NoDuplicateUsers(users')
        /\ (resp'.op = "register_user" /\ RegisterWouldDuplicate(resp'.body))
              => (resp'.status >= 400 /\ users' = users)
        /\ (resp'.op = "update_user_info"
              /\ UpdateWouldDuplicate(resp'.body, resp'.current_user))
              => (resp'.status >= 400 /\ users' = users) ]_vars

\* a registration whose checks passed lost the race and was refused by the store
C1_Witness ==
    /\ resp.op = "register_user"
    /\ resp.detail = "IntegrityError"
    /\ \E u \in DOMAIN users : users[u].email = resp.body.email

EventStoreOps == {"get_events", "create_event", "update_event", "delete_event"}

AccessControlOps ==
    {"get_shared_calendar_with_me", "get_shared_events_with_me",
     "share_event_with_me", "unshare_event_with_me"}

\* the handlers whose response carries events
ReturnsEvents ==
    {"get_events", "create_event", "update_event",
     "get_shared_events_with_me", "share_event_with_me"}

\* c is o, or o shares its calendar with c
MayAccess(o, c) == o = c \/ <<o, c>> \in user_shares

\* C2: an event-store or access-control handler run by user C returns,
\* changes or deletes an event of owner O only if O = C or the edge (O -> C)
\* exists when it runs; aimed at an event (or a calendar) of any other owner it
\* fails and leaves the events as they were.
C2_OwnerOrSharedOnly ==
    [][ resp'.op \in EventStoreOps \cup AccessControlOps =>
          LET c == resp'.current_user IN
          /\ resp'.op \in ReturnsEvents =>
                \A e \in resp'.ret : MayAccess(events'[e].owner_id, c)
          /\ \A e \in DOMAIN events :
                (e \notin DOMAIN events' \/ events'[e] # events[e])
                    => MayAccess(events[e].owner_id, c)
          /\ (resp'.event_id \in DOMAIN events
                /\ ~MayAccess(events[resp'.event_id].owner_id, c))
                => (resp'.status >= 400 /\ events' = events)
          /\ (resp'.op = "get_shared_events_with_me"
                /\ resp'.user_id \in DOMAIN users /\ ~MayAccess(resp'.user_id, c))
                => (resp'.status >= 400 /\ events' = events) ]_vars

\* a user was refused the deletion of an event of a calendar not shared with them
C2_Witness ==
    /\ resp.op = "unshare_event_with_me"
    /\ resp.status = 404
    /\ resp.event_id \in DOMAIN events
    /\ events[resp.event_id].owner_id = resp.user_id
    /\ resp.user_id # resp.current_user
    /\ <<resp.user_id, resp.current_user>> \notin user_shares

\* C3: a sharing edge (A -> B) appears only in a step of a share handler run
\* by the sharer A; no other user's request creates an edge whose sharer is A.
C3_OnlySharerCreatesEdge ==
    [][ \A a \in UserIds, b \in UserIds :
          (<<a, b>> \notin user_shares /\ <<a, b>> \in user_shares')
              => /\ resp'.op \in {"share_calendar_with_user", "share_calendar_with_me"}
                 /\ resp'.current_user = a ]_vars

\* C4: sharing is directional.  When A shares with B and no edge joined them
\* before, the edge (A -> B) exists afterwards and (B -> A) does not; and
\* the list of calendars shared with a user C holds exactly the users U with
\* an edge (U -> C), so B's list has A and A's list has B only if B shared back.
C4_Directional ==
    [][ /\ (resp'.op = "share_calendar_with_user" /\ resp'.status = 201
              /\ <<resp'.current_user, resp'.user_id>> \notin user_shares
              /\ <<resp'.user_id, resp'.current_user>> \notin user_shares
              /\ resp'.user_id # resp'.current_user)
              => /\ <<resp'.current_user, resp'.user_id>> \in user_shares'
                 /\ <<resp'.user_id, resp'.current_user>> \notin user_shares'
        /\ resp'.op = "get_calendars_shared_with_me"
              => \A u \in UserIds :
                    u \in resp'.ret <=> <<u, resp'.current_user>> \in user_shares ]_vars

\* B's list holds A, who shared with B, though B did not share back
C4_Witness ==
    /\ resp.op = "get_calendars_shared_with_me"
    /\ resp.status = 200
    /\ \E a \in resp.ret :
          /\ a # resp.current_user
          /\ <<a, resp.current_user>> \in user_shares
          /\ <<resp.current_user, a>> \notin user_shares

\* C5: share and unshare are idempotent.  A share by C to a target that C
\* already shares with returns the target with 201, commits nothing and
\* leaves user_shares as it was, the edge (C -> target) still in it; any
\* successful share ends with the edge present; an unshare by C to an existing
\* target without the edge answers 204, commits nothing and changes no edge.
C5_Idempotent ==
    [][ LET c == resp'.current_user
            t == resp'.user_id
        IN
        /\ (resp'.op = "share_calendar_with_user" /\ <<c, t>> \in user_shares)
              => /\ resp'.status = 201
                 /\ resp'.ret = {t}
                 /\ ~resp'.commit
                 /\ user_shares' = user_shares
        /\ (resp'.op = "share_calendar_with_user" /\ resp'.status = 201)
              => <<c, t>> \in user_shares'
        /\ (resp'.op = "unshare_calendar_with_user" /\ t \in DOMAIN users
              /\ <<c, t>> \notin user_shares)
              => /\ resp'.status = 204
                 /\ ~resp'.commit
                 /\ user_shares' = user_shares ]_vars

\* a share that found the edge already there
C5_Witness ==
    /\ resp.op = "share_calendar_with_user"
    /\ resp.status = 201
    /\ ~resp.commit
    /\ <<resp.current_user, resp.user_id>> \in user_shares

\* C6: the list of users C has shared with holds exactly the users T with
\* an edge (C -> T), and the handler answers 404 exactly when there is none.
C6_SharedByMe ==
    [][ resp'.op = "get_shared_users" =>
          LET mine == { t \in DOMAIN users : <<resp'.current_user, t>> \in user_shares }
          IN  /\ resp'.ret = mine
              /\ resp'.status = 404 <=> mine = {} ]_vars

\* C7: when A shares with B and B copies an event from A's calendar, exactly
\* one event is created, it is owned by B and not by A, and every event that
\* existed, A's among them, is unchanged.
C7_SharedEventOwnedByRecipient ==
    [][ (resp'.op = "share_event_with_me"
           /\ resp'.user_id # resp'.current_user
           /\ <<resp'.user_id, resp'.current_user>> \in user_shares)
          => /\ resp'.status = 201
             /\ Cardinality(DOMAIN events' \ DOMAIN events) = 1
             /\ resp'.ret = DOMAIN events' \ DOMAIN events
             /\ \A e \in resp'.ret :
                   /\ events'[e].owner_id = resp'.current_user
                   /\ events'[e].owner_id # resp'.user_id
             /\ \A e \in DOMAIN events : e \in DOMAIN events' /\ events'[e] = events[e]
             /\ { e \in DOMAIN events' : events'[e].owner_id = resp'.user_id }
                  = { e \in DOMAIN events : events[e].owner_id = resp'.user_id } ]_vars

\* B copied an event while A, who shares with B, has an event of their own
C7_Witness ==
    /\ resp.op = "share_event_with_me"
    /\ resp.status = 201
    /\ resp.user_id # resp.current_user
    /\ \E e \in DOMAIN events : events[e].owner_id = resp.user_id
    /\ \A e \in resp.ret : events[e].owner_id = resp.current_user

\* C8: copying an event from the calendar of owner_id fails with 404 when no
\* user has that id and with 403 when the user exists but does not share with
\* the caller; neither failure creates an event.
C8_SharedEventErrors ==
    [][ resp'.op = "share_event_with_me" =>
          /\ resp'.user_id \notin DOMAIN users
                => (resp'.status = 404 /\ events' = events /\ ~resp'.commit)
          /\ (resp'.user_id \in DOMAIN users
                /\ <<resp'.user_id, resp'.current_user>> \notin user_shares)
                => (resp'.status = 403 /\ events' = events /\ ~resp'.commit) ]_vars

\* the owner exists and does not share with the caller: 403
C8_Witness ==
    /\ resp.op = "share_event_with_me"
    /\ resp.status = 403
    /\ resp.user_id \in DOMAIN users
    /\ <<resp.user_id, resp.current_user>> \notin user_shares

\* C9: listing the events of owner_id returns exactly the owner's events when
\* the owner shares with the caller and has an event; it fails with 404
\* "Calendar not shared with you" when the owner exists without the edge, and
\* with 404 when the edge exists and the owner has no event.
C9_SharedEvents ==
    [][ resp'.op = "get_shared_events_with_me" =>
          LET o == resp'.user_id
              theirs == { e \in DOMAIN events : events[e].owner_id = o }
          IN
          /\ (o \in DOMAIN users /\ <<o, resp'.current_user>> \in user_shares
                /\ theirs # {})
                => (resp'.status = 200 /\ resp'.ret = theirs)
          /\ (o \in DOMAIN users /\ <<o, resp'.current_user>> \notin user_shares)
                => (resp'.status = 404 /\ resp'.detail = "Calendar not shared with you"
                    /\ resp'.ret = {})
          /\ (o \in DOMAIN users /\ <<o, resp'.current_user>> \in user_shares
                /\ theirs = {})
                => (resp'.status = 404 /\ resp'.ret = {}) ]_vars

\* the owner's events were returned while someone else has an event too
C9_Witness ==
    /\ resp.op = "get_shared_events_with_me"
    /\ resp.status = 200
    /\ resp.ret # {}
    /\ resp.user_id # resp.current_user
    /\ \E e \in DOMAIN events : events[e].owner_id # resp.user_id

\* C10: deleting event_id from the calendar of owner_id removes that event,
\* and only it, when the owner exists, shares with the caller and owns the
\* event; in every other case it fails with 404 and no event is removed.
C10_DeleteSharedEvent ==
    [][ resp'.op = "unshare_event_with_me" =>
          LET o == resp'.user_id
              e == resp'.event_id
              allowed == /\ o \in DOMAIN users
                         /\ <<o, resp'.current_user>> \in user_shares
                         /\ e \in DOMAIN events
                         /\ events[e].owner_id = o
          IN  IF allowed
              THEN /\ resp'.status = 204
                   /\ DOMAIN events' = DOMAIN events \ {e}
                   /\ \A k \in DOMAIN events' : events'[k] = events[k]
              ELSE /\ resp'.status = 404
                   /\ events' = events ]_vars

\* the edge exists, but the event belongs to someone else: 404, nothing removed
C10_Witness ==
    /\ resp.op = "unshare_event_with_me"
    /\ resp.status = 404
    /\ <<resp.user_id, resp.current_user>> \in user_shares
    /\ resp.event_id \in DOMAIN events
    /\ events[resp.event_id].owner_id # resp.user_id

\* C11: ownership isolation.  update_event and delete_event by user C on an
\* event that exists but belongs to another user have the outcome they have on
\* an event id that does not exist, 404 "Event not found" with nothing
\* returned and nothing committed, and leave every event as it was.
C11_OwnershipIsolation ==
    [][ (resp'.op \in {"update_event", "delete_event"}
           /\ (resp'.event_id \notin DOMAIN events
                \/ events[resp'.event_id].owner_id # resp'.current_user))
          => /\ resp'.status = 404
             /\ resp'.detail = "Event not found"
             /\ resp'.ret = {}
             /\ ~resp'.commit
             /\ events' = events ]_vars

\* an update aimed at another user's event was answered 404
C11_Witness ==
    /\ resp.op = "update_event"
    /\ resp.status = 404
    /\ resp.detail = "Event not found"
    /\ resp.event_id \in DOMAIN events
    /\ events[resp.event_id].owner_id # resp.current_user
    /\ events[resp.event_id].owner_id \in DOMAIN users

\* C12: when delete_user by U completes, U's row is gone, no event is owned
\* by U, no sharing edge has U as sharer or as recipient, and the events and
\* edges that do not involve U are exactly as they were.
C12_DeleteCascades ==
    [][ (resp'.op = "delete_user" /\ resp'.status = 204) =>
          LET u == resp'.current_user IN
          /\ u \notin DOMAIN users'
          /\ \A v \in DOMAIN users \ {u} : v \in DOMAIN users' /\ users'[v] = users[v]
          /\ \A e \in DOMAIN events' : events'[e].owner_id # u
          /\ \A s \in user_shares' : s[1] # u /\ s[2] # u
          /\ \A e \in DOMAIN events :
                events[e].owner_id # u => (e \in DOMAIN events' /\ events'[e] = events[e])
          /\ DOMAIN events' \subseteq DOMAIN events
          /\ \A s \in user_shares : (s[1] # u /\ s[2] # u) => s \in user_shares'
          /\ user_shares' \subseteq user_shares ]_vars

\* an account was deleted, an event of it went with it, and an event and an
\* edge of other users are still there
C12_Witness ==
    /\ resp.op = "delete_user"
    /\ resp.status = 204
    /\ resp.current_user \notin DOMAIN users
    /\ events # <<>>
    /\ user_shares # {}
    /\ Cardinality(DOMAIN events) < nextEventId - 1

\* C13: register_user answers 400 "Email already registered" and adds no
\* user when a user with the email exists, whatever the username, also when
\* the username is taken too (the email check runs first); it answers 400
\* "Username already taken" and adds no user when only the username exists.
C13_RegisterConflicts ==
    [][ resp'.op = "register_user" =>
          LET emailTaken == \E u \in DOMAIN users : users[u].email = resp'.body.email
              nameTaken == \E u \in DOMAIN users : users[u].username = resp'.body.username
          IN
          /\ emailTaken
                => /\ resp'.status = 400
                   /\ resp'.detail = "Email already registered"
                   /\ users' = users
          /\ (~emailTaken /\ nameTaken)
                => /\ resp'.status = 400
                   /\ resp'.detail = "Username already taken"
                   /\ users' = users
          /\ (~emailTaken /\ ~nameTaken) => resp'.status = 201 ]_vars

\* a registration with a taken email and a username nobody has was refused
C13_Witness ==
    /\ resp.op = "register_user"
    /\ resp.status = 400
    /\ resp.detail = "Email already registered"
    /\ \E u \in DOMAIN users : users[u].email = resp.body.email
    /\ \A u \in DOMAIN users : users[u].username # resp.body.username

\* C14: two register requests with the same email run concurrently, their
\* lookups and commits interleaved in any order.  The request that finishes
\* while a user with its email exists is answered 400, the Conflict error,
\* and adds no user.
C14_ConcurrentRegisterConflict ==
    [][ (resp'.op = "register_user"
           /\ \E u \in DOMAIN users : users[u].email = resp'.body.email)
          => (resp'.status = 400 /\ users' = users) ]_vars

\* C15: login_user with an email no user has and login_user with the email
\* of a user and a password that is not theirs get one and the same answer,
\* 401 "Invalid credentials" with the header WWW-Authenticate: Bearer and no
\* token, so the answer does not tell whether the email is registered;
\* neither changes a user, an event or a sharing edge.
C15_LoginIndistinguishable ==
    [][ resp'.op = "login_user" =>
          LET known == { u \in DOMAIN users : users[u].email = resp'.body.email }
              wrong == \E u \in known :
                          users[u].hashed_password # <<"bcrypt", resp'.body.password>>
          IN  (known = {} \/ wrong)
                => /\ resp'.status = 401
                   /\ resp'.detail = "Invalid credentials"
                   /\ resp'.headers = {<<"WWW-Authenticate", "Bearer">>}
                   /\ resp'.ret = {}
                   /\ ~resp'.commit
                   /\ UNCHANGED <<users, nextUserId, events, nextEventId, user_shares>> ]_vars

\* a login with a registered email and a wrong password was refused while
\* another email is still unregistered
C15_Witness ==
    /\ resp.op = "login_user"
    /\ resp.status = 401
    /\ \E u \in DOMAIN users :
          /\ users[u].email = resp.body.email
          /\ users[u].hashed_password # <<"bcrypt", resp.body.password>>
    /\ \E email \in Emails : \A u \in DOMAIN users : users[u].email # email

\* C16: update_user_info with username, email and password all left out
\* answers 200 with the caller's record, commits nothing and leaves the users
\* table as it was.
C16_EmptyUpdateIsNoOp ==
    [][ (resp'.op = "update_user_info"
           /\ resp'.body.username = None
           /\ resp'.body.email = None
           /\ resp'.body.password = None)
          => /\ resp'.status = 200
             /\ resp'.ret = {resp'.current_user}
             /\ ~resp'.commit
             /\ users' = users ]_vars

\* C17: update_user_info compares a new username or email with the other
\* users only.  A patch whose username or email is held by another user is
\* answered 400, the Conflict error, and changes no field of the caller's
\* record, whatever else it carries or leaves out.
C17_ConflictAnswers400 ==
    [][ resp'.op = "update_user_info" =>
          LET c == resp'.current_user
              body == resp'.body
              nameClash == /\ Given(body.username)
                           /\ \E u \in DOMAIN users \ {c} : users[u].username = body.username
              emailClash == /\ Given(body.email)
                            /\ \E u \in DOMAIN users \ {c} : users[u].email = body.email
          IN  (nameClash \/ emailClash) => (resp'.status = 400 /\ users' = users) ]_vars

\* C17, for the bodies that validate as UserUpdate (an email is present): a
\* body whose username or email is held by another user is answered 400 and
\* changes no field of the caller's record; a body without such a value, the
\* caller's own current username and email included, is answered 200 and
\* applied.
C17_UpdateConflictsWithOthersOnly ==
    [][ (resp'.op = "update_user_info" /\ resp'.body \in UserUpdate) =>
          LET c == resp'.current_user
              body == resp'.body
              nameClash == /\ Given(body.username)
                           /\ \E u \in DOMAIN users \ {c} : users[u].username = body.username
              emailClash == /\ Given(body.email)
                            /\ \E u \in DOMAIN users \ {c} : users[u].email = body.email
          IN
          /\ (nameClash \/ emailClash) => (resp'.status = 400 /\ users' = users)
          /\ ~(nameClash \/ emailClash)
                => /\ resp'.status = 200
                   /\ Given(body.username) => users'[c].username = body.username
                   /\ Given(body.email) => users'[c].email = body.email
                   /\ \A u \in DOMAIN users \ {c} : users'[u] = users[u] ]_vars

\* an update that carries the caller's own username and email was accepted
\* while another user is registered
C17_Witness ==
    /\ resp.op = "update_user_info"
    /\ resp.status = 200
    /\ resp.current_user \in DOMAIN users
    /\ resp.body.username = users[resp.current_user].username
    /\ resp.body.email = users[resp.current_user].email
    /\ \E u \in DOMAIN users : u # resp.current_user

\* C18: every handler is all-or-nothing.  A request that is answered with an
\* error (status 400 or above) has committed nothing: the users, the events
\* and the sharing edges are exactly what they were before it.
C18_AllOrNothing ==
    [][ resp'.status >= 400
          => /\ ~resp'.commit
             /\ users' = users
             /\ events' = events
             /\ user_shares' = user_shares ]_vars

\* a copy into a calendar that is not shared was refused with 403 after the
\* caller's earlier requests had written users, events and edges
C18_Witness ==
    /\ resp.op = "share_event_with_me"
    /\ resp.status = 403
    /\ events # <<>>
    /\ user_shares # {}
    /\ \E u \in DOMAIN users : users[u].username # People[u].username

\* C19: share_calendar_with_user and unshare_calendar_with_user answer 404
\* "User not found" exactly when no user has the target id, and then change
\* no edge; for a target that exists they succeed, the share (201) ending
\* with the edge (C -> target) present and the unshare (204) with it absent,
\* and no other edge changes.
C19_ShareTargetMustExist ==
    [][ resp'.op \in {"share_calendar_with_user", "unshare_calendar_with_user"} =>
          LET c == resp'.current_user
              t == resp'.user_id
              others == { s \in user_shares : s # <<c, t>> }
          IN
          /\ resp'.status = 404 <=> t \notin DOMAIN users
          /\ t \notin DOMAIN users
                => (resp'.detail = "User not found" /\ user_shares' = user_shares)
          /\ (t \in DOMAIN users /\ resp'.op = "share_calendar_with_user")
                => /\ resp'.status = 201
                   /\ resp'.ret = {t}
                   /\ user_shares' = others \cup {<<c, t>>}
          /\ (t \in DOMAIN users /\ resp'.op = "unshare_calendar_with_user")
                => /\ resp'.status = 204
                   /\ user_shares' = others ]_vars

\* a share towards an id that no user has was answered 404 while the caller
\* shares with someone else
C19_Witness ==
    /\ resp.op = "share_calendar_with_user"
    /\ resp.status = 404
    /\ resp.detail = "User not found"
    /\ resp.user_id \notin DOMAIN users
    /\ \E t \in DOMAIN users : <<resp.current_user, t>> \in user_shares

\* C20: no user shares with themself: a share by C towards C's own id, from
\* either side, changes no edge, and no edge (C -> C) exists in any state.
C20_NoSelfShare == \A c \in UserIds : <<c, c>> \notin user_shares


\* the responses of create_access_token called directly
IssuedDirectly == resp.op = "create_access_token"

\* C21: create_access_token called without expires_delta gives a token that
\* expires 30 minutes after the time of issue, called with expires_delta one
\* that expires exactly expires_delta after it, and the token carries the
\* given username as sub.
C21_TokenExpiry ==
    [][ resp' # resp /\ resp'.op = "create_access_token" =>
          LET claims == resp'.token[2]
              ttl == resp'.body.expires_delta
          IN  /\ claims.sub = resp'.body.data.sub
              /\ claims.exp = now + (IF ttl = NoDelta THEN 30 ELSE ttl.minutes) ]_vars

\* C21, the part that holds: a non-zero expires_delta is the lifetime of the
\* token, the lifetime is 15 minutes otherwise, and sub is the username given.
C21_TokenExpiryOfCode ==
    [][ resp' # resp /\ resp'.op = "create_access_token" =>
          LET claims == resp'.token[2]
              ttl == resp'.body.expires_delta
          IN  /\ resp'.token[1] = "HS256"
              /\ claims.sub = resp'.body.data.sub
              /\ claims.exp = now + (IF Truthy(ttl) THEN ttl.minutes ELSE 15) ]_vars

C21_Witness ==
    /\ IssuedDirectly
    /\ resp.body.expires_delta = NoDelta
    /\ now > 0


\* C26: a token that login issued for a user, whenever GET /me later
\* resolves it, resolves to that same user id, whatever registrations,
\* updates and deletions happened in between.
C26_TokenResolvesToItsUser ==
    [][ resp' # resp /\ resp'.op = "get_current_user_info" /\ resp'.status = 200 =>
          \A k \in tokens :
              k.access_token = resp'.body.token => resp'.ret = {k.user} ]_vars

\* C26, the part that holds: a token resolves to the user who holds the
\* username in its sub at the time it is presented, and to nobody once it
\* has expired or when it is forged.
C26_TokenResolvesByUsername ==
    [][ resp' # resp /\ resp'.op = "get_current_user_info" =>
          LET token == resp'.body.token IN
          IF token = Forged \/ token[2].exp < now
          THEN resp'.status = 401 /\ resp'.ret = {}
          ELSE /\ resp'.ret = { u \in DOMAIN users : users[u].username = token[2].sub }
               /\ resp'.status = 200 <=> resp'.ret # {} ]_vars


\* C22: GET /events by user C returns exactly the events whose owner_id is C,
\* all of them and none of another user, and answers 404 exactly when C owns
\* no event.
C22_ListForOwner ==
    [][ resp' # resp /\ resp'.op = "get_events" =>
          LET owned == { e \in DOMAIN events : events[e].owner_id = resp'.current_user }
          IN  /\ resp'.ret = owned
              /\ resp'.status = (IF owned = {} THEN 404 ELSE 200)
              /\ resp'.status = 404 => resp'.detail = "No events found" ]_vars

\* C has created one event on an empty calendar, another user owns an event
\* too, and GET /events returned exactly C's event
C22_Witness ==
    /\ resp.op = "get_events"
    /\ resp.status = 200
    /\ \E e \in DOMAIN events :
          /\ resp.ret = {e}
          /\ events[e].owner_id = resp.current_user
    /\ \E e \in DOMAIN events : events[e].owner_id # resp.current_user


\* C23: POST /events by user C succeeds for every start and end the caller
\* supplies, also when the end is not after the start, and stores the event
\* as supplied with owner_id = C.
C23_CreateAcceptsAnyTimes ==
    [][ resp' # resp /\ resp'.op = "create_event" =>
          /\ resp'.status = 201
          /\ resp'.commit
          /\ \E e \in DOMAIN events' \ DOMAIN events :
                /\ resp'.ret = {e}
                /\ DOMAIN events' = DOMAIN events \cup {e}
                /\ events'[e].owner_id = resp'.current_user
                /\ events'[e].title = resp'.body.title
                /\ events'[e].start_time = resp'.body.start_time
                /\ events'[e].end_time = resp'.body.end_time ]_vars

\* an event that ends before it starts has been created
C23_Witness ==
    /\ resp.op = "create_event"
    /\ resp.status = 201
    /\ Instant(resp.body.end_time) < Instant(resp.body.start_time)
    /\ \E e \in resp.ret : events[e].end_time = resp.body.end_time

\* an event that ends when it starts has been created
C23_WitnessEmpty ==
    /\ resp.op = "create_event"
    /\ resp.status = 201
    /\ resp.body.end_time = resp.body.start_time


\* the requests in flight
Calls == BagToSet(reqs)

\* the handler of r has just run
Ran(r) == r.pc = "endpoint" /\ CopiesIn(r, reqs') < CopiesIn(r, reqs)

\* r is a request whose handler has run, as it is in the next state
RanAs(r, after) ==
    /\ Ran(r)
    /\ after.pc = "close"
    /\ after.route = r.route
    /\ after.acquired = r.acquired
    /\ CopiesIn(after, reqs') > CopiesIn(after, reqs)

\* a session is open for one request only, every open session belongs to a
\* request in flight, and a request holds at most one
SessionsAreOwned ==
    /\ \A r \in Calls : r.acquired \subseteq sessions /\ Cardinality(r.acquired) <= 1
    /\ \A r1, r2 \in Calls : r1 # r2 => r1.acquired \cap r2.acquired = {}
    /\ \A r \in Calls : r.acquired # {} => CopiesIn(r, reqs) = 1
    /\ sessions = UNION { r.acquired : r \in Calls }

\* C24: for every request to every handler exactly one session is acquired
\* before the handler's first read or write, every read and write of the
\* request goes through that session, the session is released when the
\* request ends, and no session is shared between requests or left open.
C24_OneSessionPerRequest ==
    [][ /\ SessionsAreOwned'
        /\ \A r \in Calls, after \in BagToSet(reqs') :
              RanAs(r, after) =>
                 /\ Cardinality(r.acquired) = 1
                 /\ after.used = { Session(id) : id \in r.acquired } ]_vars

\* C24, the part that holds: sessions are never shared or left open, and
\* the handlers of auth_routes.py and users.py, which depend on get_db
\* itself, read and write through the one session of their request.
C24_SessionsOfGetDb ==
    [][ /\ SessionsAreOwned'
        /\ \A r \in Calls, after \in BagToSet(reqs') :
              RanAs(r, after) /\ DbParam(r.route) = "get_db" =>
                 /\ Cardinality(r.acquired) = 1
                 /\ after.used = { Session(id) : id \in r.acquired }
                 /\ after.status = 200 ]_vars

\* C24, the divergence: a handler whose db comes from get_database_connection
\* reaches for the database through a generator and the request ends in 500.
C24_GeneratorIsNoSession ==
    [][ \A r \in Calls, after \in BagToSet(reqs') :
           RanAs(r, after) /\ DbParam(r.route) = "get_database_connection" =>
              /\ Generator \in after.used
              /\ after.status = 500 ]_vars

C24_Witness ==
    /\ resp.op = "update_user_info"
    /\ resp.status = 200
    /\ \E r \in Calls : r.route = "get_events" /\ r.pc = "close" /\ r.status = 500


ShareOps == {"share_calendar_with_user", "share_calendar_with_me"}

\* the edge a share response is about
SharedEdge(response) ==
    IF response.op = "share_calendar_with_user"
    THEN <<response.current_user, response.user_id>>
    ELSE <<response.user_id, response.current_user>>

\* C25: there is at most one sharing edge per ordered pair, also when two
\* share requests for the same pair run concurrently: a share request
\* commits a row only for a pair that has none, and a request whose
\* membership check was overtaken by another request's commit adds nothing.
C25_OneEdgePerPair ==
    [][ resp' # resp /\ resp'.op \in ShareOps =>
          /\ resp'.commit =>
                /\ SharedEdge(resp') \notin user_shares
                /\ user_shares' = user_shares \cup {SharedEdge(resp')}
          /\ ~resp'.commit => user_shares' = user_shares
          /\ resp'.status \in {201, 500} => SharedEdge(resp') \in user_shares' ]_vars

\* two share requests for one pair passed their membership checks, one
\* committed the row, and the INSERT of the other was rejected
C25_Witness ==
    /\ resp.op \in ShareOps
    /\ resp.status = 500
    /\ resp.detail = "IntegrityError"
    /\ SharedEdge(resp) \in user_shares


\* C27: a recipient's request into a shared calendar deletes or returns the
\* sharer's events only while the edge is there: once the sharer's unshare
\* has committed, a request that checked the edge before commits and
\* returns nothing of the sharer's.
C27_NoCheckThenActRace ==
    [][ /\ resp' # resp
        /\ resp'.op \in {"unshare_event_with_me", "get_shared_events_with_me"}
        /\ resp'.commit \/ resp'.ret # {}
        => <<resp'.user_id, resp'.current_user>> \in user_shares ]_vars

\* C27, what the code gives: such a request went through only if the edge
\* was there at some time while it ran (it passed the check), and it
\* deletes or returns events of the sharer only.
C27_ActsOnSharerOnly ==
    [][ /\ resp' # resp
        /\ resp'.op \in {"unshare_event_with_me", "get_shared_events_with_me"}
        => /\ resp'.commit =>
                /\ resp'.event_id \in DOMAIN events
                /\ events[resp'.event_id].owner_id = resp'.user_id
                /\ events' = Delete(events, {resp'.event_id})
           /\ \A e \in resp'.ret : events[e].owner_id = resp'.user_id ]_vars

\* the sharer has revoked, and the recipient's delete committed after it
C27_Witness ==
    /\ resp.op = "unshare_event_with_me"
    /\ resp.commit
    /\ <<resp.user_id, resp.current_user>> \notin user_shares


\* every event is owned by a user, and both ends of every edge are users
ReferentialIntegrity ==
    /\ \A e \in DOMAIN events : events[e].owner_id \in DOMAIN users
    /\ \A edge \in user_shares : edge[1] \in DOMAIN users /\ edge[2] \in DOMAIN users

\* C28: referential integrity holds in every reachable state: the owner_id
\* of every event is the id of an existing user, and both ends of every
\* sharing edge are ids of existing users, after any sequence of register,
\* delete, event and sharing operations.
C28_ReferentialIntegrity == ReferentialIntegrity

\* an account has been deleted, and events and edges of the other users
\* remain
C28_Witness ==
    /\ resp.op = "delete_user"
    /\ resp.commit
    /\ DOMAIN events # {}
    /\ user_shares # {}
    /\ resp.current_user \notin DOMAIN users


EdgeOps ==
    {"share_calendar_with_user", "unshare_calendar_with_user",
     "share_calendar_with_me", "unshare_calendar_with_me"}

\* the ordered edge a sharing request targets: caller -> target for the
\* sharer's own share and unshare, owner -> caller for the recipient's
TargetEdge(response) ==
    IF response.op \in {"share_calendar_with_user", "unshare_calendar_with_user"}
    THEN <<response.current_user, response.user_id>>
    ELSE <<response.user_id, response.current_user>>

\* C29: share, unshare, and the recipient's share-with-me and
\* unshare-with-me change at most the one ordered edge they target: the
\* reverse edge, every other edge, the users and the events stay as they are.
C29_OnlyTargetEdgeChanges ==
    [][ resp' # resp /\ resp'.op \in EdgeOps =>
          /\ user_shares' \ {TargetEdge(resp')} = user_shares \ {TargetEdge(resp')}
          /\ users' = users
          /\ events' = events
          /\ nextUserId' = nextUserId
          /\ nextEventId' = nextEventId ]_vars

\* an edge was removed while its reverse edge and another edge stay
C29_Witness ==
    /\ resp.op \in {"unshare_calendar_with_user", "unshare_calendar_with_me"}
    /\ resp.commit
    /\ TargetEdge(resp)[1] # TargetEdge(resp)[2]
    /\ TargetEdge(resp) \notin user_shares
    /\ <<TargetEdge(resp)[2], TargetEdge(resp)[1]>> \in user_shares
    /\ Cardinality(user_shares) >= 2


EventFields == {"title", "start_time", "end_time"}

=============================================================================
